---- MODULE Spec2Model ----
(***************************************************************************)
(* audrey: format detection (open, Reader::new), the stream description    *)
(* (Reader::description), sample reading (Reader::samples, Samples::next), *)
(* frame assembly (Frames::next over Samples::next) and the extension      *)
(* functions of Format, modelled from src/src/read.rs, src/src/caf_alac.rs *)
(* and src/src/lib.rs.                                                     *)
(*                                                                         *)
(* The decoder collaborators (hound, claxon, lewton, caf, alac) are not    *)
(* part of the repository: what their constructors and pull operations     *)
(* return is an input, drawn from the result shapes the code matches on.   *)
(* The conversions of the `sample` crate are modelled as that crate        *)
(* computes them between integer sample types.                             *)
(***************************************************************************)
EXTENDS Integers, Sequences, FiniteSets, TLC

(***************************************************************************)
(* Bounds of the model.                                                    *)
(***************************************************************************)
\* Largest read position of the stream handed to Reader::new.
MaxInitPos == 1
\* Largest number of bytes one constructor call consumes.
MaxRead == 2
\* Largest channel count a decoder declares.
MaxChannels == 2

(***************************************************************************)
(* Formats (lib.rs) and the detection order (read.rs).                     *)
(***************************************************************************)
Formats == {"Flac", "OggVorbis", "Wav", "CafAlac"}

\* The order of the four cfg blocks of Reader::new.
\* A faulty variant of Order: the flac block before the wav block.
OrderSwapped == <<"Flac", "Wav", "OggVorbis", "CafAlac">>
Order == <<"Wav", "Flac", "OggVorbis", "CafAlac">>

\* reader.seek(std::io::SeekFrom::Start(0)): the position a rewind asks for,
\* given the current position p.
\* A faulty variant of SeekFromStart: SeekFrom::Current(0).
SeekFromCurrent(p) == p
SeekFromStart(p) == 0

(***************************************************************************)
(* Results of the collaborators' constructors.  v is the variant, p the    *)
(* payload the code matches on (or ignores with _).                        *)
(***************************************************************************)
Res(v, p) == [v |-> v, p |-> p]

\* hound::WavReader::new: what the bytes decide.
WavData == {Res("Ok", "-"), Res("FormatError", "-"), Res("Unsupported", "-")}
\* claxon::FlacReader::new: what the bytes decide.
FlacData == {Res("Ok", "-"), Res("FormatError", "-"), Res("Unsupported", "-")}
\* lewton::inside_ogg::OggStreamReader::new: what the bytes decide.
OggData ==
    {Res("Ok", "-"),
     Res("OggError", "NoCapturePatternFound"),
     Res("OggError", "HashMismatch"),
     Res("BadHeader", "NotVorbisHeader"),
     Res("BadHeader", "HeaderBadFormat")}
\* A CAF stream: what CafPacketReader::new returns on it, the format id of
\* its audio description, and its magic cookie chunk.
CafData ==
    {[caf |-> "NotCaf", format_id |-> "-", cookie |-> "-"],
     [caf |-> "UnsupportedChunkType", format_id |-> "-", cookie |-> "-"],
     [caf |-> "Ok", format_id |-> "LinearPcm", cookie |-> "absent"],
     [caf |-> "Ok", format_id |-> "AppleLossless", cookie |-> "absent"],
     [caf |-> "Ok", format_id |-> "AppleLossless", cookie |-> "invalid"],
     [caf |-> "Ok", format_id |-> "AppleLossless", cookie |-> "valid"]}

DataOf(f) ==
    CASE f = "Wav" -> WavData
      [] f = "Flac" -> FlacData
      [] f = "OggVorbis" -> OggData
      [] f = "CafAlac" -> CafData

\* The streams: for each format, what its constructor finds when it reads
\* the stream from offset 0.
Contents == [Formats -> UNION {DataOf(f) : f \in Formats}]

\* An I/O failure of the stream during a constructor, as the collaborator
\* reports it.
IoFailure(f) ==
    CASE f = "Wav" -> Res("IoError", "-")
      [] f = "Flac" -> Res("IoError", "-")
      [] f = "OggVorbis" -> Res("OggError", "ReadError")
      [] f = "CafAlac" -> Res("Caf", "Io")

\* AlacReader::new (caf_alac.rs): c is the CAF stream read, fault an I/O
\* failure while CafPacketReader::new reads it.
AlacReaderNew(c, fault) ==
    IF fault THEN Res("Caf", "Io")
    ELSE IF c.caf # "Ok" THEN Res("Caf", c.caf)
    ELSE IF c.format_id # "AppleLossless" THEN Res("Ok", "None")
    ELSE IF c.cookie = "absent" THEN Res("Panic", "-")
    ELSE IF c.cookie = "invalid" THEN Res("Alac", "-")
    ELSE Res("Ok", "Some")

\* One constructor call of format f on data d.
CtorResult(f, d, fault) ==
    IF f = "CafAlac" THEN AlacReaderNew(d, fault)
    ELSE IF fault THEN IoFailure(f)
    ELSE d

(***************************************************************************)
(* The match arms of the four probes of Reader::new.                       *)
(***************************************************************************)
ProbeWav(r) ==
    IF r.v = "FormatError" THEN "mismatch"
    ELSE IF r.v = "Ok" THEN "match"
    ELSE "abort"

ProbeFlac(r) ==
    IF r.v = "FormatError" THEN "mismatch"
    ELSE IF r.v = "Ok" THEN "match"
    ELSE "abort"

ProbeOggVorbis(r) ==
    IF r.v = "OggError" THEN "mismatch"
    ELSE IF r.v = "BadHeader" /\ r.p = "NotVorbisHeader" THEN "mismatch"
    ELSE IF r.v = "Ok" THEN "match"
    ELSE "abort"

\* A faulty variant of ProbeCafAlac: Ok(_) => true, the Ok(None) arm left out.
ProbeCafAlacAnyOk(r) ==
    IF r.v = "Panic" THEN "panic"
    ELSE IF r.v = "Caf" /\ r.p = "NotCaf" THEN "mismatch"
    ELSE IF r.v = "Ok" THEN "match"
    ELSE "abort"
ProbeCafAlac(r) ==
    IF r.v = "Panic" THEN "panic"
    ELSE IF r.v = "Caf" /\ r.p = "NotCaf" THEN "mismatch"
    ELSE IF r.v = "Ok" /\ r.p = "None" THEN "mismatch"
    ELSE IF r.v = "Ok" THEN "match"
    ELSE "abort"

ProbeClass(f, r) ==
    CASE f = "Wav" -> ProbeWav(r)
      [] f = "Flac" -> ProbeFlac(r)
      [] f = "OggVorbis" -> ProbeOggVorbis(r)
      [] f = "CafAlac" -> ProbeCafAlac(r)

\* The second construction, on the owned stream: F::new(reader)?, and for
\* CafAlac AlacReader::new(reader)?.unwrap().
FinalClass(f, r) ==
    IF r.v = "Panic" THEN "panic"
    ELSE IF r.v = "Ok" /\ r.p = "None" THEN "panic"
    ELSE IF r.v = "Ok" THEN "ok"
    ELSE "err"

(***************************************************************************)
(* ReadError and the value Reader::new returns.                            *)
(***************************************************************************)
NoResult == [kind |-> "none", fmt |-> "-", err |-> Res("-", "-")]
OkReader(f) == [kind |-> "Ok", fmt |-> f, err |-> Res("-", "-")]
\* impl<T: Into<FormatError>> From<T> for ReadError
ReaderErr(f, r) == [kind |-> "Reader", fmt |-> f, err |-> r]
\* impl From<std::io::Error> for ReadError
IoErr == [kind |-> "Io", fmt |-> "-", err |-> Res("-", "-")]
UnsupportedFormat == [kind |-> "UnsupportedFormat", fmt |-> "-", err |-> Res("-", "-")]
Panicked == [kind |-> "panic", fmt |-> "-", err |-> Res("-", "-")]

\* What a caller tells apart in the value returned: the format identity of
\* the reader, or the kind of the error.
Outcome(r) == [kind |-> r.kind, fmt |-> IF r.kind = "Ok" THEN r.fmt ELSE "-"]
NoOutcome == Outcome(NoResult)

\* Reader::format
ReaderFormat(variant) ==
    CASE variant = "Flac" -> "Flac"
      [] variant = "OggVorbis" -> "OggVorbis"
      [] variant = "Wav" -> "Wav"
      [] variant = "CafAlac" -> "CafAlac"

(***************************************************************************)
(* Reader::description.  d is what the decoder declares: channels and      *)
(* sample_rate (for CafAlac audio_desc.channels_per_frame and the f64      *)
(* audio_desc.sample_rate, here holding a whole number of Hz).             *)
(***************************************************************************)
\* (1.0 / desc.sample_rate) as u32: the reciprocal, truncated toward zero.
CafSampleRate(rate) == 1 \div rate

Description(variant, d) ==
    CASE variant = "Flac" ->
           [format |-> "Flac", channel_count |-> d.channels,
            sample_rate |-> d.sample_rate]
      [] variant = "OggVorbis" ->
           [format |-> "OggVorbis", channel_count |-> d.channels,
            sample_rate |-> d.sample_rate]
      [] variant = "Wav" ->
           [format |-> "Wav", channel_count |-> d.channels,
            sample_rate |-> d.sample_rate]
      [] variant = "CafAlac" ->
           [format |-> "CafAlac", channel_count |-> d.channels,
            sample_rate |-> CafSampleRate(d.sample_rate)]

\* What a decoder may declare.
ChannelCounts == 1..MaxChannels
SampleRates == {1, 44100, 48000}
Declared == [channels : ChannelCounts, sample_rate : SampleRates]
NoDecl == [channels |-> 0, sample_rate |-> 0]
NoDesc == [format |-> "-", channel_count |-> 0, sample_rate |-> 0]

(***************************************************************************)
(* Format::from_extension and Format::extension (lib.rs).                  *)
(***************************************************************************)
Some(f) == [some |-> TRUE, fmt |-> f]
NoFormat == [some |-> FALSE, fmt |-> "-"]

\* A faulty variant of from_extension: the "oga" and "wave" spellings left out.
from_extension_one_each(e) ==
    CASE e = "flac" -> Some("Flac")
      [] e = "ogg" -> Some("OggVorbis")
      [] e = "wav" -> Some("Wav")
      [] e = "caf" -> Some("CafAlac")
      [] OTHER -> NoFormat
\* Format::from_extension: the match on the extension as given (no change of
\* case).
from_extension(e) ==
    CASE e = "flac" -> Some("Flac")
      [] e \in {"ogg", "oga"} -> Some("OggVorbis")
      [] e \in {"wav", "wave"} -> Some("Wav")
      [] e = "caf" -> Some("CafAlac")
      [] OTHER -> NoFormat

\* Format::extension
extension(f) ==
    CASE f = "Flac" -> "flac"
      [] f = "Wav" -> "wav"
      [] f = "OggVorbis" -> "ogg"
      [] f = "CafAlac" -> "caf"

\* The strings given to Format::from_extension: the six extensions it
\* knows, and strings it does not know (another extension, other letter
\* case, the empty string).
Extensions ==
    {"flac", "ogg", "oga", "wav", "wave", "caf", "mp3", "FLAC", "Wave", ""}

VARIABLES
    arg_ext,  \* the string given to Format::from_extension
    arg_fmt,  \* the Format whose extension is asked for
    got_fmt,  \* what Format::from_extension(arg_ext) returned (NotCalled before)
    got_ext,  \* what arg_fmt.extension() returned ("?" before)
    round     \* what Format::from_extension(got_ext) returned (NotCalled before)

format_vars == <<arg_ext, arg_fmt, got_fmt, got_ext, round>>

NotCalled == [some |-> FALSE, fmt |-> "?"]

\* No call of the two functions is under way.
FormatIdle ==
    /\ arg_ext = "-"
    /\ arg_fmt = "-"
    /\ got_fmt = NotCalled
    /\ got_ext = "?"
    /\ round = NotCalled

\* The arguments of the calls.
FormatArgs ==
    /\ arg_ext \in Extensions
    /\ arg_fmt \in Formats
    /\ got_fmt = NotCalled
    /\ got_ext = "?"
    /\ round = NotCalled

\* Format::from_extension(arg_ext)
CallFromExtension ==
    /\ arg_ext \in Extensions
    /\ got_fmt = NotCalled
    /\ got_fmt' = from_extension(arg_ext)
    /\ UNCHANGED <<arg_ext, arg_fmt, got_ext, round>>

\* arg_fmt.extension()
CallExtension ==
    /\ arg_fmt \in Formats
    /\ got_ext = "?"
    /\ got_ext' = extension(arg_fmt)
    /\ UNCHANGED <<arg_ext, arg_fmt, got_fmt, round>>

\* Format::from_extension(arg_fmt.extension())
CallFromExtensionOfExtension ==
    /\ got_ext # "?"
    /\ round = NotCalled
    /\ round' = from_extension(got_ext)
    /\ UNCHANGED <<arg_ext, arg_fmt, got_fmt, got_ext>>

\* The extensions of the paths given to open.
PathExtensions == {"wav", "ogg", "caf", "txt"}

\* A faulty variant of FirstCandidate: the candidate the extension names.
FirstCandidateByExtension(e) ==
    IF from_extension(e).some
    THEN CHOOSE k \in 1..Len(Order) : Order[k] = from_extension(e).fmt
    ELSE 1
\* The candidate Reader::new starts with when BufFileReader::open calls it
\* for a path of extension e: the first block, whatever the path.
FirstCandidate(e) == 1

(***************************************************************************)
(* State.                                                                  *)
(***************************************************************************)
VARIABLES
    ext,      \* open: the extension of the path ("-" for Reader::new)
    first,    \* the outcome of an earlier read of the same content (or none)
    via,      \* "open" (BufFileReader::open / open) or "new" (Reader::new)
    content,  \* the stream's bytes, as what each constructor finds at offset 0
    pos,      \* the stream's read position
    pc,       \* where the call is: "open", "probe", "seek", "construct", "done"
    cand,     \* index in Order of the candidate being tried
    is_fmt,   \* is_wav / is_flac / is_ogg_vorbis / is_caf_alac
    result,   \* what the call returned (NoResult while it runs)
    log,      \* history: the constructor calls and seeks made, in order
    decl,     \* what the constructed decoder declares
    desc      \* the last value of Reader::description (NoDesc before)

detect_vars == <<via, ext, first, content, pos, pc, cand, is_fmt, result, log, decl, desc>>

CtorEvent(op, f, at, r, left) ==
    [op |-> op, fmt |-> f, at |-> at, res |-> r, to |-> -1, left |-> left]
SeekEvent(to, ok, left) ==
    [op |-> "seek", fmt |-> "-", at |-> -1,
     res |-> Res(IF ok THEN "Ok" ELSE "Err", "-"), to |-> to, left |-> left]

\* What a constructor of format f can return when it starts reading at
\* position p: at offset 0 the stream's content decides, elsewhere it reads
\* other bytes.
CtorResults(f, p, fault) ==
    IF p = 0 THEN {CtorResult(f, content[f], fault)}
    ELSE {CtorResult(f, d, fault) : d \in DataOf(f)}

InitDetect ==
    /\ via \in {"open", "new"}
    /\ content \in Contents
    /\ \A f \in Formats : content[f] \in DataOf(f)
    /\ pos \in 0..MaxInitPos
    /\ via = "open" => pos = 0
    /\ ext \in (IF via = "open" THEN PathExtensions ELSE {"-"})
    /\ first = NoOutcome
    /\ pc = IF via = "open" THEN "open" ELSE "probe"
    /\ cand = 1
    /\ is_fmt = FALSE
    /\ result = NoResult
    /\ log = <<>>
    /\ decl = NoDecl
    /\ desc = NoDesc

\* BufFileReader::open: std::fs::File::open(path)?, then Reader::new.
Open ==
    /\ pc = "open"
    /\ \E ok \in BOOLEAN :
         IF ok THEN pc' = "probe" /\ result' = result /\ cand' = FirstCandidate(ext)
         ELSE pc' = "done" /\ result' = IoErr /\ cand' = cand
    /\ UNCHANGED <<via, ext, first, content, pos, is_fmt, log, decl, desc>>

\* The probe of candidate Order[cand]: F::new(&mut reader) and its match.
Probe ==
    /\ pc = "probe"
    /\ \E fault \in BOOLEAN, n \in 0..MaxRead :
       \E r \in CtorResults(Order[cand], pos, fault) :
         LET f == Order[cand]
             c == ProbeClass(f, r)
         IN /\ (r.v = "Ok" => n > 0)
            /\ pos' = pos + n
            /\ log' = Append(log, CtorEvent("probe", f, pos, r,
                                             IF r.v = "Ok" THEN pos + n ELSE -1))
            /\ is_fmt' = (c = "match")
            /\ pc' = IF c \in {"match", "mismatch"} THEN "seek" ELSE "done"
            /\ result' = CASE c = "abort" -> ReaderErr(f, r)
                            [] c = "panic" -> Panicked
                            [] OTHER -> result
    /\ UNCHANGED <<via, ext, first, content, cand, decl, desc>>

\* What follows a successful rewind.
\* A faulty variant of AfterSeek: the `if is_fmt { return ... }` left out.
AfterSeekIgnoringMatch(m, k) ==
    IF k < Len(Order) THEN "probe" ELSE "done"
AfterSeek(m, k) ==
    IF m THEN "construct"
    ELSE IF k < Len(Order) THEN "probe"
    ELSE "done"

\* reader.seek(std::io::SeekFrom::Start(0))?, then if is_fmt { return ... },
\* the next block, or Err(ReadError::UnsupportedFormat).
Seek ==
    /\ pc = "seek"
    /\ \E ok \in BOOLEAN :
         LET to == SeekFromStart(pos)
             next == AfterSeek(is_fmt, cand)
         IN IF ok
            THEN /\ pos' = to
                 /\ log' = Append(log, SeekEvent(to, TRUE, to))
                 /\ pc' = next
                 /\ cand' = IF next = "probe" THEN cand + 1 ELSE cand
                 /\ result' = IF next = "done" THEN UnsupportedFormat ELSE result
            ELSE /\ pos' = pos
                 /\ log' = Append(log, SeekEvent(to, FALSE, pos))
                 /\ pc' = "done"
                 /\ cand' = cand
                 /\ result' = IoErr
    /\ UNCHANGED <<via, ext, first, content, is_fmt, decl, desc>>

\* return Ok(Reader::F(F::new(reader)?)): the second construction, which
\* takes the stream.
Construct ==
    /\ pc = "construct"
    /\ \E fault \in BOOLEAN, n \in 0..MaxRead, d \in Declared :
       \E r \in CtorResults(Order[cand], pos, fault) :
         LET f == Order[cand]
             c == FinalClass(f, r)
         IN /\ (r.v = "Ok" => n > 0)
            /\ (c # "ok" => d = CHOOSE x \in Declared : TRUE)
            /\ pos' = pos + n
            /\ log' = Append(log, CtorEvent("construct", f, pos, r,
                                             IF r.v = "Ok" THEN pos + n ELSE -1))
            /\ pc' = "done"
            /\ decl' = IF c = "ok" THEN d ELSE decl
            /\ result' = CASE c = "ok" -> OkReader(f)
                            [] c = "err" -> ReaderErr(f, r)
                            [] c = "panic" -> Panicked
    /\ UNCHANGED <<via, ext, first, content, cand, is_fmt, desc>>

\* Reader::description on the reader Reader::new returned.
Describe ==
    /\ pc = "done"
    /\ result.kind = "Ok"
    /\ desc = NoDesc
    /\ desc' = Description(result.fmt, decl)
    /\ UNCHANGED <<via, ext, first, content, pos, pc, cand, is_fmt, result, log, decl>>

(***************************************************************************)
(* Reading: Samples::next and Frames::next (read.rs), AlacReader::         *)
(* read_packet (caf_alac.rs).                                              *)
(*                                                                         *)
(* The adapter's collaborator is a script of what its successive pulls     *)
(* return: a decoded unit (for Flac and Wav one sample, for OggVorbis and  *)
(* CafAlac a packet), end-of-stream or an error; once the script is used   *)
(* up every further pull returns end-of-stream.  Decoded values are        *)
(* numbered 1, 2, ... in decoding order and errors carry their place in    *)
(* the script, so that order, loss and duplication are visible.  The       *)
(* script holds the values in the adapter's native sample type; every      *)
(* yielded sample went through sample::Sample::to_sample.                  *)
(***************************************************************************)
\* Largest number of pulls the collaborator's script answers.
MaxUnits == 3
\* Largest number of values in one decoded unit.
MaxUnitLen == 2
\* Largest frame arity (F::n_channels()).
MaxArity == 3
\* How many times the caller calls Frames::next (or Samples::next) again
\* after a call that returned no frame (no sample).
MaxEndCalls == 2
\* Largest number of iterators the caller drops to create a new one.
MaxDrops == 1

Unit(vals) == [t |-> "unit", vals |-> vals, e |-> 0]
Eos == [t |-> "eos", vals |-> <<>>, e |-> 0]
ErrAt(i) == [t |-> "err", vals |-> <<>>, e |-> i]

\* sample::Sample::equilibrium() of the frame's sample type.
Equilibrium == 0

\* Item shapes of a script: end-of-stream, an error, or a unit of n values.
Shape(t, n) == [t |-> t, n |-> n]
Shapes == {Shape("eos", 0), Shape("err", 0)} \cup {Shape("unit", n) : n \in 0..MaxUnitLen}
ShapeSeqs == UNION {[1..n -> Shapes] : n \in 0..MaxUnits}

RECURSIVE ValuesBefore(_, _)
ValuesBefore(sh, i) ==
    IF i <= 1 THEN 0 ELSE ValuesBefore(sh, i - 1) + sh[i - 1].n

\* The script of a shape: its values numbered in decoding order.
ScriptOf(sh) ==
    [i \in 1..Len(sh) |->
        CASE sh[i].t = "eos" -> Eos
          [] sh[i].t = "err" -> ErrAt(i)
          [] sh[i].t = "unit" ->
               Unit([j \in 1..sh[i].n |-> ValuesBefore(sh, i) + j])]

\* AlacReader::read_packet on a packet that decodes to vals: the returned
\* buffer is vec![0; frames_per_packet * channels_per_frame] with the
\* decoded values written at its front.
ReadPacket(vals, cap) ==
    [j \in 1..cap |-> IF j <= Len(vals) THEN vals[j] ELSE 0]

\* The adapter's pull: what reader.read_dec_packet_itl(), reader.read_packet()
\* or the collaborator's sample iterator returns for script s.
AdapterPull(variant, s, cap) ==
    IF s = <<>> THEN Eos
    ELSE IF s[1].t = "unit" /\ variant = "CafAlac"
         THEN Unit(ReadPacket(s[1].vals, cap))
    ELSE s[1]

Rest(s) == IF s = <<>> THEN s ELSE Tail(s)

SomeOk(v) == [t |-> "Ok", v |-> v, e |-> 0]
SomeErr(e) == [t |-> "Err", v |-> 0, e |-> e]
None == [t |-> "None", v |-> 0, e |-> 0]

\* The width in bits of a sample type.  f32 stands here with the 24 bits of
\* its significand: the scripts hold non-negative values only, and a
\* non-negative f32 sample that is a multiple of 2^-23 converts to and from
\* the integer types as a 24-bit integer does.
SampleBits(T) ==
    CASE T = "i8" -> 8
      [] T = "i16" -> 16
      [] T = "I24" -> 24
      [] T = "f32" -> 24
      [] T = "i32" -> 32

RECURSIVE Pow2(_)
Pow2(k) == IF k = 0 THEN 1 ELSE 2 * Pow2(k - 1)

\* sample::Sample::to_sample from type S to type T (the conversions of the
\* `sample` crate between integer types): full scale to full scale, a left
\* shift when T is wider and an arithmetic right shift when T is narrower.
ToSample(S, T, v) ==
    IF SampleBits(T) >= SampleBits(S)
    THEN v * Pow2(SampleBits(T) - SampleBits(S))
    ELSE v \div Pow2(SampleBits(S) - SampleBits(T))

\* hound::WavSpec as reader.spec() returns it.
WavSpec(sf, bits) == [sample_format |-> sf, bits_per_sample |-> bits]
NoWavSpec == WavSpec("-", 0)
\* The integer depths a WAV header is taken to declare here.
IntDepths == {8, 12, 16, 24, 32}
WavSpecs == {WavSpec("Int", b) : b \in IntDepths} \cup {WavSpec("Float", 32)}

\* Reader::samples, the Wav arm: the WavSamples variant chosen from the spec.
WavSamplesPath(spec) ==
    CASE spec.sample_format = "Float" -> "F32"
      [] spec.sample_format = "Int" /\ spec.bits_per_sample = 8 -> "I8"
      [] spec.sample_format = "Int" /\ spec.bits_per_sample = 16 -> "I16"
      [] spec.sample_format = "Int" /\ spec.bits_per_sample = 24 -> "I24"
      [] OTHER -> "I32"

\* The sample type a FormatSamples variant reads its collaborator in.
NativeType(variant, p) ==
    CASE variant = "OggVorbis" -> "i16"
      [] variant = "CafAlac" -> "i32"
      [] variant = "Flac" -> "i32"
      [] variant = "Wav" /\ p = "I8" -> "i8"
      [] variant = "Wav" /\ p = "I16" -> "i16"
      [] variant = "Wav" /\ p = "I24" -> "I24"
      [] variant = "Wav" /\ p = "I32" -> "i32"
      [] variant = "Wav" /\ p = "F32" -> "f32"

\* The types S that the model's callers put in Reader::samples::<S>().
TargetTypes == {"i16", "I24", "i32"}

VARIABLES
    rdr,      \* the variant of the Reader the iterator borrows
    wav,      \* Wav: the spec the WAV header declares
    path,     \* Wav: the WavSamples variant of the iterator
    target    \* the sample type S of Samples<R, S>

\* sample::Sample::to_sample::<S> on a sample the iterator read.
to_sample(v) == ToSample(NativeType(rdr, path), target, v)

\* State of a Samples iterator: the collaborator's remaining script, and for
\* the packet formats the buffer and the index into it.
SamplesState(s, b, i) == [script |-> s, buffer |-> b, index |-> i]

\* The iterator after the adapter's pull returned end-of-stream or an error:
\* `return None` and `return Some(Err(err.into()))` touch neither the buffer
\* nor the index.
\* A faulty variant of AfterNoUnit: the buffer is cleared.
AfterNoUnitCleared(st) == SamplesState(Rest(st.script), <<>>, 0)
AfterNoUnit(st) == SamplesState(Rest(st.script), st.buffer, st.index)

\* A faulty variant of Advance: the index moves on by two.
AdvanceByTwo(i) == i + 2
\* *index += 1
Advance(i) == i + 1

\* A faulty variant of NextBuffered: no loop, a unit without values is taken
\* for the end of the stream.
NextBufferedNoLoop(variant, st, cap) ==
    IF st.index < Len(st.buffer)
    THEN [item |-> SomeOk(to_sample(st.buffer[st.index + 1])),
          st |-> SamplesState(st.script, st.buffer, st.index + 1),
          n |-> 0]
    ELSE LET r == AdapterPull(variant, st.script, cap)
         IN CASE r.t = "unit" /\ r.vals # <<>> ->
                   [item |-> SomeOk(to_sample(r.vals[1])),
                    st |-> SamplesState(Rest(st.script), r.vals, 1),
                    n |-> 1]
              [] r.t = "unit" /\ r.vals = <<>> ->
                   [item |-> None,
                    st |-> SamplesState(Rest(st.script), r.vals, 0),
                    n |-> 1]
              [] r.t = "eos" ->
                   [item |-> None, st |-> AfterNoUnit(st), n |-> 1]
              [] r.t = "err" ->
                   [item |-> SomeErr(r.e), st |-> AfterNoUnit(st), n |-> 1]
\* Samples::next, the OggVorbis and CafAlac arms: the loop over the buffer.
RECURSIVE NextBuffered(_, _, _)
NextBuffered(variant, st, cap) ==
    IF st.index < Len(st.buffer)
    THEN [item |-> SomeOk(to_sample(st.buffer[st.index + 1])),
          st |-> SamplesState(st.script, st.buffer, Advance(st.index)),
          n |-> 0]
    ELSE LET r == AdapterPull(variant, st.script, cap)
         IN CASE r.t = "unit" ->
                   LET again == NextBuffered(variant,
                                    SamplesState(Rest(st.script), r.vals, 0), cap)
                   IN [again EXCEPT !.n = @ + 1]
              [] r.t = "eos" ->
                   [item |-> None, st |-> AfterNoUnit(st), n |-> 1]
              [] r.t = "err" ->
                   [item |-> SomeErr(r.e), st |-> AfterNoUnit(st), n |-> 1]

\* Samples::next, the Flac and Wav arms: the collaborator's iterator, mapped.
NextDirect(variant, st, cap) ==
    LET r == AdapterPull(variant, st.script, cap)
        nst == SamplesState(Rest(st.script), st.buffer, st.index)
    IN CASE r.t = "unit" -> [item |-> SomeOk(to_sample(r.vals[1])), st |-> nst, n |-> 1]
         [] r.t = "eos" -> [item |-> None, st |-> nst, n |-> 1]
         [] r.t = "err" -> [item |-> SomeErr(r.e), st |-> nst, n |-> 1]

\* A faulty variant of SamplesNext: what is left of the buffer is dropped and
\* every call pulls a new unit.
SamplesNextDropsRest(variant, st, cap) ==
    IF variant \in {"OggVorbis", "CafAlac"}
    THEN NextBuffered(variant,
                      SamplesState(st.script, st.buffer, Len(st.buffer)), cap)
    ELSE NextDirect(variant, st, cap)
\* Samples::next: the item returned, the iterator's state after the call, and
\* n, the number of pulls the call made on the adapter.
SamplesNext(variant, st, cap) ==
    IF variant \in {"OggVorbis", "CafAlac"} THEN NextBuffered(variant, st, cap)
    ELSE NextDirect(variant, st, cap)

\* A faulty variant of PullN: the pulls stop at the first one that gives no
\* sample.
RECURSIVE PullNUntilStop(_, _, _, _)
PullNUntilStop(variant, st, cap, k) ==
    IF k = 0 THEN [items |-> <<>>, st |-> st]
    ELSE LET one == SamplesNext(variant, st, cap)
         IN IF one.item.t # "Ok" THEN [items |-> <<one.item>>, st |-> one.st]
            ELSE LET more == PullNUntilStop(variant, one.st, cap, k - 1)
                 IN [items |-> <<one.item>> \o more.items, st |-> more.st]
\* The k calls of self.samples.next() that F::from_fn makes, in order.
RECURSIVE PullN(_, _, _, _)
PullN(variant, st, cap, k) ==
    IF k = 0 THEN [items |-> <<>>, st |-> st]
    ELSE LET one == SamplesNext(variant, st, cap)
             more == PullN(variant, one.st, cap, k - 1)
         IN [items |-> <<one.item>> \o more.items, st |-> more.st]

\* The value of `result` after the closure ran on the pulls ps, then the
\* final match of Frames::next; the frame holds equilibrium where a pull
\* gave no sample.
RECURSIVE Construction(_)
Construction(ps) ==
    IF ps = <<>> THEN "Ok"
    ELSE LET last == ps[Len(ps)]
         IN CASE last.t = "Ok" -> Construction(SubSeq(ps, 1, Len(ps) - 1))
              [] last.t = "Err" -> "Err"
              [] last.t = "None" -> "NotEnoughSamples"

RECURSIVE LastError(_)
LastError(ps) ==
    IF ps = <<>> THEN 0
    ELSE IF ps[Len(ps)].t = "Err" THEN ps[Len(ps)].e
    ELSE LastError(SubSeq(ps, 1, Len(ps) - 1))

\* A faulty variant of FrameOf: the channels filled last pull first.
FrameOfReversed(ps) ==
    [i \in 1..Len(ps) |->
        IF ps[Len(ps) + 1 - i].t = "Ok" THEN ps[Len(ps) + 1 - i].v ELSE Equilibrium]
\* The frame F::from_fn builds: channel i holds the sample of pull i, and
\* equilibrium where pull i gave no sample.
FrameOf(ps) == [i \in 1..Len(ps) |-> IF ps[i].t = "Ok" THEN ps[i].v ELSE Equilibrium]

FrameOk(fr) == [t |-> "Ok", frame |-> fr, e |-> 0]
FrameErr(e) == [t |-> "Err", frame |-> <<>>, e |-> e]
FrameNone == [t |-> "None", frame |-> <<>>, e |-> 0]

\* A faulty variant of FrameResult: NotEnoughSamples => Some(Ok(frame)).
FrameResultPartial(ps) ==
    CASE Construction(ps) = "Err" -> FrameErr(LastError(ps))
      [] OTHER -> FrameOk(FrameOf(ps))
FrameResult(ps) ==
    CASE Construction(ps) = "Ok" -> FrameOk(FrameOf(ps))
      [] Construction(ps) = "Err" -> FrameErr(LastError(ps))
      [] Construction(ps) = "NotEnoughSamples" -> FrameNone

VARIABLES
    arity,    \* the number of channels of the frame type F (0: no Frames)
    cap,      \* CafAlac: frames_per_packet * channels_per_frame
    source,   \* the collaborator's whole script (unchanged)
    samples,  \* the Samples iterator (inside Frames, or read directly)
    pulls,    \* what the pulls of the last Frames::next call returned
    out,      \* what the calls of Frames::next returned, in order
    calls,    \* what the caller's own calls of Samples::next did, in order
    drops     \* the iterators dropped: after how many calls, and their state

frames_vars ==
    <<rdr, wav, path, target, arity, cap, source, samples, pulls, out, calls, drops>>

vars == <<detect_vars, frames_vars, format_vars>>

\* No iterator: the state of the reading variables while Reader::new runs.
FramesIdle ==
    /\ rdr = "-"
    /\ wav = NoWavSpec
    /\ path = "-"
    /\ target = "-"
    /\ calls = <<>>
    /\ drops = <<>>
    /\ arity = 0
    /\ cap = 0
    /\ source = <<>>
    /\ samples = SamplesState(<<>>, <<>>, 0)
    /\ pulls = <<>>
    /\ out = <<>>

\* A Reader of variant rdr is held: the state of the detection variables
\* while its iterator is read (the history of its detection is not kept).
DetectDone ==
    /\ via = "new"
    /\ ext = "-"
    /\ first = NoOutcome
    /\ content = [f \in Formats |-> CHOOSE d \in DataOf(f) : TRUE]
    /\ pos = 0
    /\ pc = "done"
    /\ cand = 1
    /\ is_fmt = TRUE
    /\ result = OkReader(rdr)
    /\ log = <<>>
    /\ decl = NoDecl
    /\ desc = NoDesc

\* No stream and no Reader: the state of the detection variables while only
\* the functions of Format are called.
DetectIdle ==
    /\ via = "-"
    /\ ext = "-"
    /\ first = NoOutcome
    /\ content = [f \in Formats |-> CHOOSE d \in DataOf(f) : TRUE]
    /\ pos = 0
    /\ pc = "done"
    /\ cand = 1
    /\ is_fmt = FALSE
    /\ result = NoResult
    /\ log = <<>>
    /\ decl = NoDecl
    /\ desc = NoDesc

\* The shapes a variant's collaborator can deliver: Flac and Wav one sample
\* per pull, CafAlac at most cap decoded values per packet.
ShapeFits(variant, sh, c) ==
    \A i \in 1..Len(sh) :
        sh[i].t = "unit" =>
            CASE variant \in {"Flac", "Wav"} -> sh[i].n = 1
              [] variant = "CafAlac" -> sh[i].n <= c
              [] OTHER -> TRUE

\* Reader::samples::<S>() on a Reader of variant rdr: the Wav path is chosen
\* from the declared spec, the packet formats start with index 0 and an
\* empty buffer.
SamplesCreated ==
    /\ rdr \in Formats
    /\ target \in TargetTypes
    /\ wav \in (IF rdr = "Wav" THEN WavSpecs ELSE {NoWavSpec})
    /\ path = IF rdr = "Wav" THEN WavSamplesPath(wav) ELSE "-"
    /\ cap \in 0..MaxUnitLen
    /\ (rdr # "CafAlac" => cap = 0)
    /\ \E sh \in ShapeSeqs :
         /\ ShapeFits(rdr, sh, cap)
         /\ source = ScriptOf(sh)
    /\ samples = SamplesState(source, <<>>, 0)
    /\ calls = <<>>
    /\ drops = <<>>

\* Reader::frames: Frames { samples: self.samples(), .. }.
InitFrames ==
    /\ SamplesCreated
    /\ arity \in 1..MaxArity
    /\ pulls = <<>>
    /\ out = <<>>
    /\ DetectDone
    /\ FormatIdle

EndCalls == Cardinality({i \in 1..Len(out) : out[i].t # "Ok"})

\* Frames::next
FramesNext ==
    /\ rdr \in Formats
    /\ EndCalls < MaxEndCalls
    /\ LET got == PullN(rdr, samples, cap, arity)
       IN /\ pulls' = got.items
          /\ samples' = got.st
          /\ out' = Append(out, FrameResult(got.items))
    /\ UNCHANGED <<rdr, wav, path, target, arity, cap, source, calls, drops>>
    /\ UNCHANGED <<detect_vars, format_vars>>

\* Reading samples: Reader::samples, the iterator read by its caller.
InitSamples ==
    /\ SamplesCreated
    /\ arity = 0
    /\ pulls = <<>>
    /\ out = <<>>
    /\ DetectDone
    /\ FormatIdle

EndItems == Cardinality({i \in 1..Len(calls) : calls[i].item.t # "Ok"})

\* One call of Samples::next by the iterator's caller.
SamplesCall ==
    /\ rdr \in Formats
    /\ arity = 0
    /\ EndItems < MaxEndCalls
    /\ LET got == SamplesNext(rdr, samples, cap)
       IN /\ samples' = got.st
          /\ calls' = Append(calls, [item |-> got.item, n |-> got.n,
                                     before |-> samples, after |-> got.st])
    /\ UNCHANGED <<rdr, wav, path, target, arity, cap, source, pulls, out, drops>>
    /\ UNCHANGED <<detect_vars, format_vars>>

\* A faulty variant of NewIterator: the buffer and the index live on in the
\* Reader.
NewIteratorKeepsBuffer(st) == st
\* Reader::samples on a Reader whose earlier iterator was in state st when it
\* was dropped: the collaborator goes on where it was, the iterator is new
\* (index: 0, buffer: Vec::new()).
NewIterator(st) == SamplesState(st.script, <<>>, 0)

\* The caller drops its Samples iterator and calls Reader::samples::<S>()
\* again.
SamplesAgain ==
    /\ rdr \in Formats
    /\ arity = 0
    /\ Len(drops) < MaxDrops
    /\ EndItems < MaxEndCalls
    /\ drops' = Append(drops, [at |-> Len(calls), st |-> samples])
    /\ samples' = NewIterator(samples)
    /\ UNCHANGED <<rdr, wav, path, target, arity, cap, source, pulls, out, calls>>
    /\ UNCHANGED <<detect_vars, format_vars>>

Init == InitDetect /\ FramesIdle /\ FormatIdle

Next ==
    \/ (Open /\ UNCHANGED <<frames_vars, format_vars>>)
    \/ (Probe /\ UNCHANGED <<frames_vars, format_vars>>)
    \/ (Seek /\ UNCHANGED <<frames_vars, format_vars>>)
    \/ (Construct /\ UNCHANGED <<frames_vars, format_vars>>)
    \/ (Describe /\ UNCHANGED <<frames_vars, format_vars>>)

\* Detection: Reader::new (or open) on a stream, then Reader::description.
Spec == Init /\ [][Next]_vars

NextFrames == FramesNext

\* Reading: Frames::next called repeatedly on a new Frames iterator.
SpecFrames == InitFrames /\ [][NextFrames]_vars

NextSamples == SamplesCall

InitFormat == FormatArgs /\ DetectIdle /\ FramesIdle

NextIterators ==
    \/ SamplesCall
    \/ SamplesAgain

\* A Reader of a packet-buffered format and its first Samples iterator, with
\* S = i32.
InitIterators ==
    /\ InitSamples
    /\ rdr \in {"OggVorbis", "CafAlac"}
    /\ target = "i32"

\* Reading: Samples::next on successive Samples iterators of one Reader of a
\* packet-buffered format.
SpecIterators == InitIterators /\ [][NextIterators]_vars

NextFormat ==
    \/ (CallFromExtension /\ UNCHANGED <<detect_vars, frames_vars>>)
    \/ (CallExtension /\ UNCHANGED <<detect_vars, frames_vars>>)
    \/ (CallFromExtensionOfExtension /\ UNCHANGED <<detect_vars, frames_vars>>)

\* Format::from_extension and Format::extension applied to their arguments.
SpecFormat == InitFormat /\ [][NextFormat]_vars

\* Reading: Samples::next called repeatedly on a new Samples iterator.
SpecSamples == InitSamples /\ [][NextSamples]_vars

\* The same, with a caller that goes on calling Samples::next (a `for` loop
\* over the iterator, Iterator::count) as long as the model lets it.
SpecSamplesLive == InitSamples /\ [][NextSamples]_vars /\ WF_vars(SamplesCall)

(***************************************************************************)
(* Vocabulary of the properties.  These say what the specification means   *)
(* by its words, independently of how Reader::new classifies a result.     *)
(***************************************************************************)
SpecOrder == <<"Wav", "Flac", "OggVorbis", "CafAlac">>
SpecIdx(f) == CHOOSE k \in 1..Len(SpecOrder) : SpecOrder[k] = f

IsCtor(e) == e.op \in {"probe", "construct"}
Events == 1..Len(log)

\* The construction succeeded: an adapter was built.
Succeeded(e) == IsCtor(e) /\ e.res.v = "Ok" /\ e.res.p # "None"

\* "format signature did not match": not this format.
SignatureMismatch(e) ==
    /\ IsCtor(e)
    /\ CASE e.fmt \in {"Wav", "Flac"} -> e.res.v = "FormatError"
         [] e.fmt = "OggVorbis" ->
              \/ e.res = Res("OggError", "NoCapturePatternFound")
              \/ e.res = Res("BadHeader", "NotVorbisHeader")
         [] e.fmt = "CafAlac" ->
              \/ e.res = Res("Caf", "NotCaf")
              \/ e.res = Res("Ok", "None")

\* An I/O failure of the stream inside a constructor.
IoFailed(e) ==
    /\ IsCtor(e)
    /\ CASE e.fmt \in {"Wav", "Flac"} -> e.res.v = "IoError"
         [] e.fmt = "OggVorbis" -> e.res = Res("OggError", "ReadError")
         [] e.fmt = "CafAlac" -> e.res = Res("Caf", "Io")

\* The construction failed (returned an error) with a condition other than
\* a signature mismatch.
OtherFailure(e) ==
    /\ IsCtor(e)
    /\ e.res.v \notin {"Ok", "Panic"}
    /\ ~SignatureMismatch(e)

SeekFailed(e) == e.op = "seek" /\ e.res.v = "Err"
AllSeeksOk == \A i \in Events : ~SeekFailed(log[i])

\* Every candidate before f in the order was probed and reported a mismatch.
EarlierMismatch(f) ==
    \A k \in 1..(SpecIdx(f) - 1) :
        \E i \in Events :
            /\ log[i].op = "probe"
            /\ log[i].fmt = SpecOrder[k]
            /\ SignatureMismatch(log[i])

\* No candidate after f in the order was ever tried.
NoLaterCandidate(f) ==
    \A i \in Events : IsCtor(log[i]) => SpecIdx(log[i].fmt) <= SpecIdx(f)

\* Reader::new returned Ok with the variant for f, and format() and
\* description().format() are f.
ReturnsReaderOf(f) ==
    /\ result = OkReader(f)
    /\ ReaderFormat(result.fmt) = f
    /\ (desc # NoDesc => desc.format = f)

AllMismatch ==
    \A k \in 1..Len(SpecOrder) :
        \E i \in Events :
            /\ log[i].op = "probe"
            /\ log[i].fmt = SpecOrder[k]
            /\ SignatureMismatch(log[i])

\* C2: four mismatching probes and successful rewinds end in
\* ReadError::UnsupportedFormat.
C2_UnsupportedFormat ==
    (AllMismatch /\ AllSeeksOk /\ pc = "done") => result = UnsupportedFormat

\* Witness C2: UnsupportedFormat was returned for a CAF container whose
\* payload is not ALAC.
C2_Witness ==
    /\ result = UnsupportedFormat
    /\ AllMismatch
    /\ \E i \in Events : log[i].fmt = "CafAlac" /\ log[i].res = Res("Ok", "None")

(***************************************************************************)
(* C3.  A construction attempt that fails with a condition other than a    *)
(* signature mismatch (malformed headers, an I/O failure; for OggVorbis     *)
(* these arrive as VorbisError::OggError) aborts Reader::new at once: it    *)
(* returns that error and tries nothing further.                           *)
(***************************************************************************)
\* C3 as stated: a failure other than a signature mismatch is the last thing
\* Reader::new does, and its error is what the call returns.
C3_AbortOnOtherFailure ==
    \A i \in Events :
        OtherFailure(log[i])
        => /\ i = Len(log)
           /\ pc = "done"
           /\ result = ReaderErr(log[i].fmt, log[i].res)

(***************************************************************************)
(* C4.  Whenever a construction attempt reports a signature mismatch,      *)
(* Reader::new repositions the stream to absolute offset 0 and then        *)
(* attempts the next candidate of the order; a seek to offset 0 is the     *)
(* only repositioning it issues, and a failure of that seek aborts         *)
(* detection with ReadError::Io.                                           *)
(***************************************************************************)
\* What follows the mismatch reported by event i, a try of candidate k.
RewindsThenNext(i) ==
    LET k == SpecIdx(log[i].fmt)
    IN /\ (i = Len(log) => pc = "seek")
       /\ (i < Len(log) =>
             /\ log[i + 1].op = "seek"
             /\ log[i + 1].to = 0
             /\ (SeekFailed(log[i + 1]) =>
                   /\ i + 1 = Len(log)
                   /\ pc = "done"
                   /\ result = IoErr)
             /\ (~SeekFailed(log[i + 1]) =>
                   /\ log[i + 1].left = 0
                   /\ (k = Len(SpecOrder) =>
                         /\ i + 1 = Len(log)
                         /\ pc = "done"
                         /\ result = UnsupportedFormat)
                   /\ (k < Len(SpecOrder) /\ i + 1 = Len(log) =>
                         /\ pc = "probe"
                         /\ pos = 0
                         /\ Order[cand] = SpecOrder[k + 1])
                   /\ (k < Len(SpecOrder) /\ i + 1 < Len(log) =>
                         /\ log[i + 2].op = "probe"
                         /\ log[i + 2].fmt = SpecOrder[k + 1]
                         /\ log[i + 2].at = 0)))

OnlySeeksToStart == \A i \in Events : log[i].op = "seek" => log[i].to = 0

StopsAt(i) ==
    /\ i = Len(log)
    /\ pc = "done"
    /\ result = OkReader(log[i].fmt)
    /\ pos = log[i].left

C7_IoSurfacedAsIo ==
    (/\ pc = "done"
     /\ \E i \in Events : IoFailed(log[i]) \/ SeekFailed(log[i]))
    => result.kind = "Io"

(***************************************************************************)
(* C8.  description().channel_count() and description().sample_rate() are  *)
(* the channel count and the sample rate in Hz the decoder declares, and   *)
(* both are positive, for every Reader variant.                            *)
(***************************************************************************)
\* C8 as stated: the description holds the declared channel count and sample
\* rate, both positive.
C8_DescriptionDeclared ==
    desc # NoDesc =>
        /\ desc.channel_count = decl.channels
        /\ desc.sample_rate = decl.sample_rate
        /\ desc.channel_count > 0
        /\ desc.sample_rate > 0

(***************************************************************************)
(* Vocabulary of the frame properties.                                     *)
(***************************************************************************)
Calls == 1..Len(out)

\* The sample stream delivers samples and then end-of-stream for ever: the
\* collaborator's script holds units only.
OnlySamplesThenEnd == \A i \in 1..Len(source) : source[i].t = "unit"

\* The number of samples the sample stream delivers for one unit: for
\* CafAlac the packet buffer read_packet returns.
DeliveredBy(u) == IF rdr = "CafAlac" THEN cap ELSE Len(u.vals)

RECURSIVE Delivered(_)
Delivered(s) == IF s = <<>> THEN 0 ELSE DeliveredBy(s[1]) + Delivered(Tail(s))

(***************************************************************************)
(* C9.  When the sample stream delivers exactly L samples and then         *)
(* end-of-stream for ever, Frames of arity K yields floor(L / K) Ok frames *)
(* followed by None; the trailing L mod K samples are consumed and         *)
(* dropped, and no Err item is yielded.                                    *)
(***************************************************************************)
\* C9: the first floor(L / K) calls return Ok frames, every later call None,
\* and after the first None nothing is left unread.
C9_FloorFrames ==
    OnlySamplesThenEnd =>
        LET full == Delivered(source) \div arity
        IN /\ \A i \in Calls :
                /\ (i <= full => out[i].t = "Ok")
                /\ (i > full => out[i] = FrameNone)
           /\ (Len(out) > full =>
                 /\ samples.script = <<>>
                 /\ samples.index = Len(samples.buffer))

\* Witness C9: a stream that ended inside a frame, after at least one whole
\* frame, and was pulled again after the None.
C9_Witness ==
    /\ OnlySamplesThenEnd
    /\ Delivered(source) % arity # 0
    /\ Delivered(source) \div arity >= 1
    /\ Len(out) = (Delivered(source) \div arity) + 2
    /\ out[Len(out)] = FrameNone

(***************************************************************************)
(* C10.  If any of the K pulls made for one frame returns an error,        *)
(* Frames::next returns Some(Err(that error)), wherever the failing pull   *)
(* is in the frame and whatever the other pulls of the frame return.       *)
(***************************************************************************)
\* C10 as stated: the call returns Some(Err(e)) for every pull of the frame
\* that returned the error e.
C10_ErrorPropagated ==
    out # <<>> =>
        \A i \in 1..Len(pulls) :
            pulls[i].t = "Err" => out[Len(out)] = FrameErr(pulls[i].e)

(***************************************************************************)
(* C11.  Frames::next returns Some(Ok(frame)) only when all K pulls of the *)
(* call returned Ok samples, and the frame holds exactly those K samples   *)
(* in pull order: no placeholder value and no partially filled frame is    *)
(* ever emitted.                                                           *)
(***************************************************************************)
\* C11: a call that returned Ok made K pulls, all of them samples, and channel
\* i of its frame is the sample of pull i.
C11_OnlyWholeFrames ==
    (out # <<>> /\ out[Len(out)].t = "Ok") =>
        /\ Len(pulls) = arity
        /\ \A i \in 1..arity : pulls[i].t = "Ok"
        /\ out[Len(out)].frame = [i \in 1..arity |-> pulls[i].v]

\* Witness C11: a second Ok frame of two or more channels, its samples all
\* different.
C11_Witness ==
    /\ arity >= 2
    /\ Len(out) = 2
    /\ out[2].t = "Ok"
    /\ \A i, j \in 1..arity : i < j => out[2].frame[i] < out[2].frame[j]

(***************************************************************************)
(* Vocabulary of the sample properties.                                    *)
(***************************************************************************)
SampleCalls == 1..Len(calls)

\* The number of calls before the first one that returned no sample.
OkRun == Cardinality({i \in SampleCalls : \A j \in 1..i : calls[j].item.t = "Ok"})

\* The values of the units the adapter returns for script s, flattened, up
\* to its first end-of-stream or error.
RECURSIVE Flattened(_)
Flattened(s) ==
    IF s = <<>> \/ s[1].t # "unit" THEN <<>>
    ELSE AdapterPull(rdr, s, cap).vals \o Flattened(Tail(s))

\* What the adapter returns after those units: its first end-of-stream or
\* error (end-of-stream once the script is used up).
RECURSIVE FirstStop(_)
FirstStop(s) ==
    IF s = <<>> THEN Eos
    ELSE IF s[1].t # "unit" THEN s[1]
    ELSE FirstStop(Tail(s))

(***************************************************************************)
(* C12.  A single Samples iterator yields, in order and without loss,      *)
(* duplication or reordering, exactly the flattened concatenation of the   *)
(* decoded units the adapter returns, each value as one Ok item, until the *)
(* adapter reports end-of-stream (the call returns None) or an error; the  *)
(* number of Ok items is the number of values in the units delivered.      *)
(***************************************************************************)
\* C12: the i-th call returns the i-th value of the flattened units,
\* converted; the first call that returns no sample comes when all of them
\* were yielded, and returns the adapter's end-of-stream or error.
C12_FlattenedInOrder ==
    LET flat == Flattened(source)
        stop == FirstStop(source)
    IN /\ OkRun <= Len(flat)
       /\ \A i \in 1..OkRun : calls[i].item = SomeOk(to_sample(flat[i]))
       /\ (Len(calls) > OkRun =>
             /\ OkRun = Len(flat)
             /\ calls[OkRun + 1].item =
                   IF stop.t = "eos" THEN None ELSE SomeErr(stop.e))

\* Witness C12: two packets of two values each, all four yielded, then None.
C12_Witness ==
    /\ rdr = "OggVorbis"
    /\ target = "i16"
    /\ Len(source) >= 2
    /\ Len(source[1].vals) = 2
    /\ Len(source[2].vals) = 2
    /\ Len(calls) = 5
    /\ OkRun = 4
    /\ calls[5].item = None

(***************************************************************************)
(* C13.  For CafAlac the values yielded for each packet are exactly the    *)
(* values the ALAC decoder reports as decoded for that packet: a short     *)
(* final packet contributes only its decoded values, and a losslessly      *)
(* packed stream reads back as the raw PCM, same values and same count.    *)
(***************************************************************************)
\* The values the decoder reports as decoded for the packets of script s,
\* flattened, up to its first end-of-stream or error.
RECURSIVE Decoded(_)
Decoded(s) ==
    IF s = <<>> \/ s[1].t # "unit" THEN <<>>
    ELSE s[1].vals \o Decoded(Tail(s))

\* C13 as stated: a CafAlac iterator yields the decoded values, in order, and
\* nothing else before its first None or error.
C13_OnlyDecodedValues ==
    rdr = "CafAlac" =>
        LET dec == Decoded(source)
        IN /\ OkRun <= Len(dec)
           /\ \A i \in 1..OkRun : calls[i].item = SomeOk(to_sample(dec[i]))
           /\ (Len(calls) > OkRun => OkRun = Len(dec))

(***************************************************************************)
(* Reading the same content twice: after a read that started at offset 0   *)
(* and met no I/O failure, a second stream (or a file under another name)  *)
(* with byte-identical content is handed to Reader::new (or open).         *)
(***************************************************************************)
\* The read started at offset 0 and met no I/O failure: the file was opened,
\* and no constructor and no seek failed on I/O.
CleanRead ==
    /\ log # <<>>
    /\ log[1].at = 0
    /\ result.kind # "Io"
    /\ \A i \in Events : ~IoFailed(log[i]) /\ ~SeekFailed(log[i])

ReadAgain ==
    /\ pc = "done"
    /\ first = NoOutcome
    /\ CleanRead
    /\ first' = Outcome(result)
    /\ via' \in {"open", "new"}
    /\ ext' \in (IF via' = "open" THEN PathExtensions ELSE {"-"})
    /\ pos' \in 0..MaxInitPos
    /\ (via' = "open" => pos' = 0)
    /\ pc' = IF via' = "open" THEN "open" ELSE "probe"
    /\ cand' = 1
    /\ is_fmt' = FALSE
    /\ result' = NoResult
    /\ log' = <<>>
    /\ decl' = NoDecl
    /\ desc' = NoDesc
    /\ UNCHANGED content

NextTwice ==
    \/ Next
    \/ (ReadAgain /\ UNCHANGED <<frames_vars, format_vars>>)

\* Detection on two streams of the same content, one after the other.
SpecTwice == Init /\ [][NextTwice]_vars

C15_FormatFromExtension ==
    (via = "open" /\ pc = "done" /\ result.kind = "Ok") =>
        from_extension(ext) = Some(ReaderFormat(result.fmt))

(***************************************************************************)
(* C16.  For every sample type S that samples::<S>() accepts and every     *)
(* live adapter, each per-sample conversion from the adapter's native      *)
(* representation (8, 16, 24 or 32-bit integer, or f32) to S is widening,  *)
(* that is lossless: no accepted combination narrows (for example a        *)
(* 32-bit integer source to a 16-bit target).                              *)
(***************************************************************************)
\* C16 as stated: S is at least as wide as the native type of the iterator,
\* and every yielded sample, converted back to the native type, is the value
\* the adapter returned.
C16_OnlyWidening ==
    LET native == NativeType(rdr, path)
        flat == Flattened(source)
    IN \A i \in 1..OkRun :
          /\ SampleBits(target) >= SampleBits(native)
          /\ ToSample(target, native, calls[i].item.v) = flat[i]

(***************************************************************************)
(* C17.  A decode error returned by the adapter's pull is surfaced exactly *)
(* once, as the Some(Err) of the call of Samples::next that met it: that   *)
(* call does not pull the adapter again, and it leaves the iterator's      *)
(* buffer and cursor unchanged.                                            *)
(***************************************************************************)
\* The number of units, errors and ends the adapter had returned when the
\* iterator was in state st.
Consumed(st) == Len(source) - Len(st.script)

\* Call i returned the error that was the last thing its pulls got from the
\* adapter, and no other call returned that error.
SurfacedOnce(i) ==
    /\ calls[i].n >= 1
    /\ Consumed(calls[i].after) = Consumed(calls[i].before) + calls[i].n
    /\ source[Consumed(calls[i].after)] = ErrAt(calls[i].item.e)
    /\ \A j \in SampleCalls : calls[j].item = calls[i].item => j = i

\* C17 as stated: the failing call leaves buffer and cursor as they were
\* before the call.
C17_AsStated ==
    \A i \in SampleCalls :
        calls[i].item.t = "Err" =>
            /\ SurfacedOnce(i)
            /\ calls[i].after.buffer = calls[i].before.buffer
            /\ calls[i].after.index = calls[i].before.index

\* C17, amended: the failing call leaves buffer and cursor as they were when
\* it made the pull that failed: as before the call when that was its first
\* pull, and otherwise the last empty unit it skipped, used up.
C17_ErrorSurfacedOnce ==
    \A i \in SampleCalls :
        calls[i].item.t = "Err" =>
            /\ SurfacedOnce(i)
            /\ (calls[i].n = 1 =>
                  /\ calls[i].after.buffer = calls[i].before.buffer
                  /\ calls[i].after.index = calls[i].before.index)
            /\ (calls[i].n > 1 =>
                  /\ calls[i].after.buffer =
                        AdapterPull(rdr, <<source[Consumed(calls[i].after) - 1]>>, cap).vals
                  /\ calls[i].after.buffer = <<>>
                  /\ calls[i].after.index = 0)

\* Witness C17: a packet of two values was read to its end, and the next
\* call met an error on its first pull.
C17_Witness ==
    /\ rdr = "OggVorbis"
    /\ Len(calls) = 3
    /\ calls[3].item.t = "Err"
    /\ calls[3].n = 1
    /\ Len(calls[3].before.buffer) = 2
    /\ calls[3].before.index = 2

(***************************************************************************)
(* C18.  For every Format f, Format::from_extension(f.extension()) is      *)
(* Some(f); from_extension maps "flac" to Flac, "ogg" and "oga" to         *)
(* OggVorbis, "wav" and "wave" to Wav, "caf" to CafAlac, and every other   *)
(* string to None.                                                         *)
(***************************************************************************)
\* The mapping the claim lists.
ListedFormat(e) ==
    IF e = "flac" THEN Some("Flac")
    ELSE IF e = "ogg" \/ e = "oga" THEN Some("OggVorbis")
    ELSE IF e = "wav" \/ e = "wave" THEN Some("Wav")
    ELSE IF e = "caf" THEN Some("CafAlac")
    ELSE NoFormat

\* C18: from_extension of a format's extension gives the format back, and
\* from_extension returns what the list says.
C18_ExtensionRoundTrip ==
    /\ (round # NotCalled => round = Some(arg_fmt))
    /\ (got_fmt # NotCalled => got_fmt = ListedFormat(arg_ext))

\* Witness C18: OggVorbis went round through "ogg", and the second spelling
\* "oga" was mapped to OggVorbis too.
C18_Witness ==
    /\ arg_fmt = "OggVorbis"
    /\ got_ext = "ogg"
    /\ round = Some("OggVorbis")
    /\ arg_ext = "oga"
    /\ got_fmt = Some("OggVorbis")

(***************************************************************************)
(* C19.  For a Wav stream the decode path is a function of the declared    *)
(* sample format and bit depth only, fixed when the stream is created:     *)
(* Int/8 the 8-bit path, Int/16 the 16-bit path, Int/24 the 24-bit path,   *)
(* Int/32 the 32-bit path, Float the f32 path; every declared integer      *)
(* depth is read through the path of its own width, so that full-range     *)
(* rescaling is relative to the declared depth.                            *)
(***************************************************************************)
\* C19 as stated: a Wav iterator that yielded a sample reads Float through
\* the f32 path and Int through the integer path as wide as the declared
\* depth.
C19_PathOfDeclaredDepth ==
    (rdr = "Wav" /\ calls # <<>> /\ calls[1].item.t = "Ok") =>
        IF wav.sample_format = "Float"
        THEN NativeType(rdr, path) = "f32"
        ELSE /\ NativeType(rdr, path) # "f32"
             /\ SampleBits(NativeType(rdr, path)) = wav.bits_per_sample

(***************************************************************************)
(* C20.  Every call of Samples::next on a packet-buffered stream returns   *)
(* after finitely many adapter pulls, provided the adapter does not return *)
(* empty units for ever: an empty unit is skipped by pulling again, and    *)
(* the call returns at the first non-empty unit, end-of-stream or error;   *)
(* if the adapter delivers finitely many units and then end-of-stream, the *)
(* sample stream is finite and eventually yields None.                     *)
(***************************************************************************)
\* What pull number k of the adapter returns (end-of-stream after the
\* script).
PullAt(k) == AdapterPull(rdr, SubSeq(source, k, Len(source)), cap)

EmptyUnit(r) == r.t = "unit" /\ r.vals = <<>>

\* Call i made no pull when the buffer still held a value; otherwise it
\* pulled until the first result that is not an empty unit, and returned
\* that result: the first value of the unit, None or the error.
ReturnsAtFirstNonEmpty(i) ==
    LET c == calls[i]
        base == Consumed(c.before)
        last == PullAt(base + c.n)
    IN IF c.before.index < Len(c.before.buffer) THEN c.n = 0
       ELSE /\ c.n >= 1
            /\ c.n <= Len(c.before.script) + 1
            /\ \A j \in 1..(c.n - 1) : EmptyUnit(PullAt(base + j))
            /\ ~EmptyUnit(last)
            /\ c.item = CASE last.t = "unit" -> SomeOk(to_sample(last.vals[1]))
                          [] last.t = "eos" -> None
                          [] last.t = "err" -> SomeErr(last.e)

PacketBuffered == rdr \in {"OggVorbis", "CafAlac"}

\* C20: on a packet-buffered stream every call returns at the first result
\* that is not an empty unit, and when the adapter delivers units only and
\* then end-of-stream, some call returns None.
C20_ReturnsAndEnds ==
    /\ [](PacketBuffered => \A i \in SampleCalls : ReturnsAtFirstNonEmpty(i))
    /\ ((PacketBuffered /\ OnlySamplesThenEnd) =>
           <>(\E i \in SampleCalls : calls[i].item = None))

\* Witness C20: a call skipped two empty packets and returned a sample, and
\* a later call returned None.
C20_Witness ==
    /\ rdr = "OggVorbis"
    /\ OnlySamplesThenEnd
    /\ \E i \in SampleCalls : calls[i].n = 3 /\ calls[i].item.t = "Ok"
    /\ calls[Len(calls)].item = None

(***************************************************************************)
(* C21.  Reader::new and AlacReader::new never panic: for every            *)
(* combination of collaborator outcomes, a CAF stream tagged Apple         *)
(* Lossless without a magic-cookie chunk and a final construction whose    *)
(* outcome differs from the probe's included, the call returns an Ok or    *)
(* an Err value.                                                           *)
(***************************************************************************)
\* C21 as stated: a call that is over returned Ok or one of the ReadError
\* variants.
C21_NeverPanics ==
    pc = "done" => result.kind \in {"Ok", "Io", "Reader", "UnsupportedFormat"}

(***************************************************************************)
(* C22.  Every call of Frames::next pulls exactly K times from the sample  *)
(* stream whatever the pulls return: it keeps pulling after an             *)
(* end-of-stream or an error inside the frame, and the last pull that was  *)
(* not a sample decides the result (None for an end-of-stream, Some(Err)   *)
(* of the error for an error), never an earlier one.                       *)
(***************************************************************************)
\* The pulls of the last call that gave no sample.
NonSamples == {i \in 1..Len(pulls) : pulls[i].t # "Ok"}

\* C22: the last call made K pulls, and if some gave no sample, the last of
\* those decides what the call returned.
C22_LastNonSampleDecides ==
    out # <<>> =>
        /\ Len(pulls) = arity
        /\ (NonSamples # {} =>
              LET j == CHOOSE i \in NonSamples : \A k \in NonSamples : k <= i
              IN out[Len(out)] =
                    IF pulls[j].t = "None" THEN FrameNone
                    ELSE FrameErr(pulls[j].e))

\* Witness C22: a frame of three pulls, an error, then a sample, then
\* end-of-stream; the call returned None.
C22_Witness ==
    /\ arity = 3
    /\ out # <<>>
    /\ Len(pulls) = 3
    /\ pulls[1].t = "Err"
    /\ pulls[2].t = "Ok"
    /\ pulls[3].t = "None"
    /\ out[Len(out)] = FrameNone

(***************************************************************************)
(* C23.  For the packet-buffered formats the buffer of decoded values      *)
(* belongs to the Samples iterator, not to the Reader: a new iterator      *)
(* starts with an empty buffer and cursor 0 and its first pull fetches the *)
(* next unit from the adapter; values left unread in the buffer of a       *)
(* dropped iterator are never yielded by a later iterator of the Reader,   *)
(* and no decoded value is yielded twice across successive iterators.      *)
(***************************************************************************)
Drops == 1..Len(drops)

\* The place of the value that call i yielded: the number of the adapter's
\* result that is in the buffer, and the index in it.
Slot(i) == <<Consumed(calls[i].after), calls[i].after.index>>

\* The places of the values left unread in the buffer of dropped iterator d.
LeftUnread(d) ==
    {<<Consumed(drops[d].st), j>> :
        j \in (drops[d].st.index + 1)..Len(drops[d].st.buffer)}

\* The iterator created after drop d, as it was before its first call (as
\* it is, if no call was made since).
CreatedAfter(d) ==
    IF drops[d].at < Len(calls) THEN calls[drops[d].at + 1].before ELSE samples

\* C23: every new iterator starts empty at cursor 0 and its first call pulls
\* the adapter; no later call yields a value a dropped iterator left unread,
\* and no two calls yield the same decoded value.
C23_BufferOfTheIterator ==
    PacketBuffered =>
        /\ \A d \in Drops :
              /\ CreatedAfter(d).buffer = <<>>
              /\ CreatedAfter(d).index = 0
              /\ CreatedAfter(d).script = drops[d].st.script
              /\ (drops[d].at < Len(calls) => calls[drops[d].at + 1].n >= 1)
        /\ \A d \in Drops : \A i \in SampleCalls :
              (i > drops[d].at /\ calls[i].item.t = "Ok") =>
                  Slot(i) \notin LeftUnread(d)
        /\ \A i, j \in SampleCalls :
              (i < j /\ calls[i].item.t = "Ok" /\ calls[j].item.t = "Ok") =>
                  Slot(i) # Slot(j)

\* Witness C23: the first iterator yielded the first of a packet's two values
\* and was dropped; the second yielded the two values of the next packet
\* and then None.
C23_Witness ==
    /\ rdr = "OggVorbis"
    /\ Len(drops) = 1
    /\ drops[1].at = 1
    /\ drops[1].st.buffer = <<1, 2>>
    /\ drops[1].st.index = 1
    /\ Len(calls) = 4
    /\ calls[2].item = SomeOk(to_sample(3))
    /\ calls[3].item = SomeOk(to_sample(4))
    /\ calls[4].item = None

(***************************************************************************)
(* C24.  In every reachable state of a packet-buffered Samples iterator    *)
(* 0 <= index <= buffer.len(); index increases by exactly 1 per yielded    *)
(* sample, is reset to 0 exactly when the buffer is replaced by a newly    *)
(* decoded unit, and the buffer is replaced only when index ==             *)
(* buffer.len(), so no out-of-bounds buffer access can occur.              *)
(***************************************************************************)
InBounds(st) == 0 <= st.index /\ st.index <= Len(st.buffer)

\* The units call i pulled: all its pulls, but for a last one that returned
\* end-of-stream or an error.
UnitsPulled(i) == IF calls[i].item.t = "Ok" THEN calls[i].n ELSE calls[i].n - 1

\* Call i and the index: without a new unit the buffer stays and the index
\* grows by one if a sample was yielded and not at all otherwise; a new unit
\* is pulled only with the buffer read to its end, the buffer is then the
\* last unit pulled, and the index counts from 0 the samples yielded from
\* it. The sample yielded was read inside the buffer.
IndexStep(i) ==
    LET c == calls[i]
        yielded == IF c.item.t = "Ok" THEN 1 ELSE 0
    IN /\ InBounds(c.before)
       /\ InBounds(c.after)
       /\ (c.n >= 1 => c.before.index = Len(c.before.buffer))
       /\ (UnitsPulled(i) = 0 =>
             /\ c.after.buffer = c.before.buffer
             /\ c.after.index = c.before.index + yielded)
       /\ (UnitsPulled(i) >= 1 =>
             /\ c.after.buffer = PullAt(Consumed(c.before) + UnitsPulled(i)).vals
             /\ c.after.index = 0 + yielded)
       /\ (c.item.t = "Ok" =>
             /\ c.after.index - 1 < Len(c.after.buffer)
             /\ c.item = SomeOk(to_sample(c.after.buffer[c.after.index])))

\* C24: the iterator's index is within its buffer, and every call moved it
\* as described.
C24_IndexWithinBuffer ==
    PacketBuffered =>
        /\ InBounds(samples)
        /\ \A i \in SampleCalls : IndexStep(i)

\* Witness C24: a packet of two values read to its end (index 1, then 2),
\* then the next packet pulled and its first value yielded (index 1).
C24_Witness ==
    /\ rdr = "CafAlac"
    /\ cap = 2
    /\ Len(calls) = 3
    /\ calls[1].after.index = 1
    /\ calls[2].after.index = 2
    /\ calls[3].n = 1
    /\ calls[3].item.t = "Ok"
    /\ calls[3].after.index = 1
    /\ calls[3].after.buffer # calls[3].before.buffer

(***************************************************************************)
(* C25.  Every adapter construction attempt made by Reader::new, the very  *)
(* first probe included, starts with the stream at absolute offset 0,      *)
(* whatever the read position of the stream handed to Reader::new; hence   *)
(* the outcome does not depend on that position.                           *)
(***************************************************************************)
\* C25 as stated: every constructor call of the log started at offset 0.
C25_EveryAttemptAtStart ==
    \A i \in Events : IsCtor(log[i]) => log[i].at = 0

====
